---- MODULE Spec2Model ----
(***************************************************************************)
(* Model of examples/faster-rcnn/inference.py: a single-threaded script    *)
(* that parses its arguments, validates them with assertions, builds the   *)
(* backend, the data loader and the Faster-RCNN model, runs one forward    *)
(* pass per validation image and hands the collected boxes to voc_eval.    *)
(*                                                                         *)
(* The script is read as Python 2 (it uses xrange and writes encoded        *)
(* bytes to stdout) run with assert statements enabled. Calls into the     *)
(* framework (neon, aeon, faster_rcnn, voc_eval) either return or raise;   *)
(* what they return is a value determined by their arguments, and the      *)
(* validation set may yield any number of images.                          *)
(*                                                                         *)
(* Python values are modelled as follows.                                  *)
(*   None / a value v      : <<>> / <<v>>                                  *)
(*   a path string         : a sequence of tokens ("/" is the separator)   *)
(*   a list of length n    : a function with domain 0 .. n-1               *)
(*   a float               : a normalised rational <<num, den>>            *)
(*   a 2-d numpy array     : [kind |-> "ndarray", ncols, rows] where rows  *)
(*                           is a sequence of tuples                       *)
(*   the literal []        : EmptyList                                     *)
(***************************************************************************)
EXTENDS Integers, Sequences, FiniteSets, TLC

VARIABLES pc, exc, args, be, valid_set, model, proposalLayer, num_images,
          all_boxes, all_gt_boxes, mb_idx, x, outputs, meta, proposals,
          boxes, gt_boxes, metas, log, parsed

vars == <<pc, exc, args, be, valid_set, model, proposalLayer, num_images,
          all_boxes, all_gt_boxes, mb_idx, x, outputs, meta, proposals,
          boxes, gt_boxes, metas, log, parsed>>

\* ------------------------------------------------------------- bounds
MaxImages == 2
MaxClasses == 2
MaxBatch == 2
BufRows == 2

\* ------------------------------------------------------ Python values
None == <<>>
Some(v) == <<v>>

EmptyList == [kind |-> "list", ncols |-> 0, rows |-> <<>>]
NdArray(nc, rs) == [kind |-> "ndarray", ncols |-> nc, rows |-> rs]

Min(a, b) == IF a <= b THEN a ELSE b
Abs(a) == IF a < 0 THEN -a ELSE a

RECURSIVE Gcd(_, _)
Gcd(a, b) == IF b = 0 THEN a ELSE Gcd(b, a % b)

\* a float as a rational in lowest terms with a positive denominator
Rat(n, d) ==
    LET g == Gcd(Abs(n), Abs(d))
        s == IF d < 0 THEN -1 ELSE 1
    IN  <<(s * n) \div g, (s * d) \div g>>

FloatOfInt(n) == Rat(n, 1)
FloatOfBool(b) == IF b THEN FloatOfInt(1) ELSE FloatOfInt(0)
RatDiv(a, b) == Rat(a[1] * b[2], a[2] * b[1])
RatMul(a, b) == Rat(a[1] * b[1], a[2] * b[2])

\* a[:n] on the rows of an array, for n >= 0
Head_n(rows, n) == SubSeq(rows, 1, Min(n, Len(rows)))

\* os.path.join(a, b) for a relative b
PathJoin(a, b) ==
    IF a = <<>> THEN b
    ELSE IF a[Len(a)] = "/" THEN a \o b
    ELSE a \o <<"/">> \o b

\* ------------------------------------------------- command-line inputs
ModelFiles == {None, Some(<<"faster_rcnn.pkl">>)}
Manifests == {{}, {"train"}, {"train", "val"}}
BatchSizes == 0 .. MaxBatch
DataDirs == {<<"data">>, <<"data", "/">>}
OutputDirs == {None, Some(<<"out">>)}

ArgSpace ==
    [model_file : ModelFiles, manifest : Manifests, batch_size : BatchSizes,
     normalize : BOOLEAN, output_dir : OutputDirs, data_dir : DataDirs]

\* the argument namespace before parser.parse_args() has returned
Unparsed ==
    [model_file |-> None, manifest |-> {}, batch_size |-> 1,
     normalize |-> FALSE, output_dir |-> None, data_dir |-> <<>>]

Ev(op, k) == [op |-> op, idx |-> k]

Init ==
    /\ pc = "parse_args"
    /\ exc = "none"
    /\ args = Unparsed
    /\ be = FALSE
    /\ valid_set = None
    /\ model = None
    /\ proposalLayer = None
    /\ num_images = 0
    /\ all_boxes = <<>>
    /\ all_gt_boxes = <<>>
    /\ mb_idx = -1
    /\ x = None
    /\ outputs = None
    /\ meta = None
    /\ proposals = None
    /\ boxes = None
    /\ gt_boxes = None
    /\ metas = <<>>
    /\ log = <<>>
    /\ parsed = Unparsed

\* groups of variables, for UNCHANGED
setupV == <<be, valid_set, model, proposalLayer>>
accV == <<num_images, all_boxes, all_gt_boxes>>
loopV == <<mb_idx, x, outputs, meta, proposals, boxes, gt_boxes, metas>>

\* an uncaught exception ends the script
Raise(e) == pc' = "failed" /\ exc' = e
Goto(l) == pc' = l /\ exc' = exc
Called(op, k) == log' = Append(log, Ev(op, k))

\* ------------------------------------------- argument parsing (54-64)
ParseArgs ==
    /\ pc = "parse_args"
    /\ \E a \in ArgSpace : args' = a /\ parsed' = a
    /\ Goto("output_dir_default")
    /\ Called("parse_args", -1)
    /\ UNCHANGED <<setupV, accV, loopV>>

DefaultOutputDirAlways(a) == Some(PathJoin(a.data_dir, <<"frcn_output">>))

DefaultOutputDir(a) ==
    IF a.output_dir = None
    THEN Some(PathJoin(a.data_dir, <<"frcn_output">>))
    ELSE a.output_dir

OutputDirDefault ==
    /\ pc = "output_dir_default"
    /\ args' = [args EXCEPT !.output_dir = DefaultOutputDir(args)]
    /\ Goto("assert_model_file")
    /\ UNCHANGED <<parsed, setupV, accV, loopV, log>>

\* ------------------------------------------- validation asserts (66-70)
\* a failing assert raises AssertionError, which nothing catches
AssertStmt(cond, next) ==
    /\ IF cond THEN Goto(next) ELSE Raise("AssertionError")
    /\ UNCHANGED <<args, parsed, setupV, accV, loopV, log>>

HasModelFileAlways(a) == TRUE

HasModelFile(a) == a.model_file # None

AssertModelFile ==
    /\ pc = "assert_model_file"
    /\ AssertStmt(HasModelFile(args), "assert_manifest")

HasValManifestAny(a) == a.manifest # {}

HasValManifest(a) == "val" \in a.manifest

AssertManifest ==
    /\ pc = "assert_manifest"
    /\ AssertStmt(HasValManifest(args), "assert_batch_size")

BatchSizeAtLeastOne(a) == a.batch_size >= 1

\* `args.batch_size is 1`: batch_size is an int made by argparse, and the
\* interpreter keeps one object per small int, so identity is equality here
BatchSizeIsOne(a) == a.batch_size = 1

AssertBatchSize ==
    /\ pc = "assert_batch_size"
    /\ AssertStmt(BatchSizeIsOne(args), "gen_backend")

\* ------------------------------------------------- setup (74-102)
\* every call into the framework may raise; nothing in the script catches
GenBackend ==
    /\ pc = "gen_backend"
    /\ Called("gen_backend", -1)
    /\ \/ be' = TRUE /\ Goto("build_data_loader")
       \/ be' = be /\ Raise("Exception")
    /\ UNCHANGED <<args, parsed, valid_set, model, proposalLayer, accV, loopV>>

\* lines 78-88; the set has ndata images and num_classes classes
BuildDataLoader ==
    /\ pc = "build_data_loader"
    /\ Called("DataLoader", -1)
    /\ \/ /\ \E n \in 0 .. MaxImages, c \in 1 .. MaxClasses :
                valid_set' = Some([ndata |-> n, num_classes |-> c])
          /\ Goto("build_model")
       \/ valid_set' = valid_set /\ Raise("Exception")
    /\ UNCHANGED <<args, parsed, be, model, proposalLayer, accV, loopV>>

BuildModel ==
    /\ pc = "build_model"
    /\ Called("build_model", -1)
    /\ \/ /\ model' = Some([params |-> None, initialized |-> FALSE,
                            bbreg_scaled |-> 0])
          /\ proposalLayer' = Some([img |-> None])
          /\ Goto("load_params")
       \/ UNCHANGED <<model, proposalLayer>> /\ Raise("Exception")
    /\ UNCHANGED <<args, parsed, be, valid_set, accV, loopV>>

LoadParams ==
    /\ pc = "load_params"
    /\ Called("load_params", -1)
    /\ \/ /\ model' = Some([model[1] EXCEPT !.params = args.model_file])
          /\ Goto("initialize")
       \/ model' = model /\ Raise("Exception")
    /\ UNCHANGED <<args, parsed, be, valid_set, proposalLayer, accV, loopV>>

Initialize ==
    /\ pc = "initialize"
    /\ Called("initialize", -1)
    /\ \/ /\ model' = Some([model[1] EXCEPT !.initialized = TRUE])
          /\ Goto("normalize")
       \/ model' = model /\ Raise("Exception")
    /\ UNCHANGED <<args, parsed, be, valid_set, proposalLayer, accV, loopV>>

WantsNormalizeAlways(a) == TRUE

WantsNormalize(a) == a.normalize

\* lines 100-102
Normalize ==
    /\ pc = "normalize"
    /\ IF WantsNormalize(args)
       THEN /\ Called("scale_bbreg_weights", -1)
            /\ \/ /\ model' = Some([model[1] EXCEPT
                                      !.bbreg_scaled = @ + 1])
                  /\ Goto("init_accumulators")
               \/ model' = model /\ Raise("Exception")
       ELSE /\ UNCHANGED <<model, log>>
            /\ Goto("init_accumulators")
    /\ UNCHANGED <<args, parsed, be, valid_set, proposalLayer, accV, loopV>>

\* ------------------------------------------------ accumulators (107-119)
NewAllBoxes(ni, nc) == [i \in 0 .. ni - 1 |-> [c \in 0 .. nc - 1 |-> EmptyList]]
NewAllGtBoxes(ni) == [i \in 0 .. ni - 1 |-> EmptyList]

InitAccumulators ==
    /\ pc = "init_accumulators"
    /\ num_images' = valid_set[1].ndata
    /\ all_boxes' = NewAllBoxes(valid_set[1].ndata, valid_set[1].num_classes)
    /\ all_gt_boxes' = NewAllGtBoxes(valid_set[1].ndata)
    /\ Goto("loop")
    /\ UNCHANGED <<args, parsed, setupV, loopV, log>>

\* ------------------------------------------- external calls of the loop
\* the scale the loader resized image k by: neighbouring images differ
ImScale(k) == IF k % 2 = 0 THEN Rat(1, 2) ELSE Rat(3, 2)

\* the metadata buffers the data loader holds for image k: BufRows rows
\* each, of which only the first num_gt_boxes are meaningful
GtBoxesBuf(k) == NdArray(4, [r \in 1 .. BufRows |-> <<r, k + 1, r + 2, k + 3>>])
GtClassesBuf(k) == NdArray(1, [r \in 1 .. BufRows |-> <<(k + r) % MaxClasses>>])
DifficultBuf(k) == NdArray(1, [r \in 1 .. BufRows |-> <<(k + r) % 2>>])

MetadataBuffers(k, n) ==
    [im_shape |-> <<k + 3, k + 4>>, im_scale |-> ImScale(k),
     gt_boxes |-> GtBoxesBuf(k),
     gt_classes |-> GtClassesBuf(k), num_gt_boxes |-> n,
     difficult |-> DifficultBuf(k)]

\* model.fprop(x, inference=True): a value determined by the model and x
FpropOut(m, img) ==
    [img |-> img, params |-> m.params, scaled |-> m.bbreg_scaled]

\* faster_rcnn.get_bboxes: one N x 5 array (x1, y1, x2, y2, score) per class
Detections(out, props, nc, im_shape, im_scale) ==
    [c \in 0 .. nc - 1 |->
        NdArray(5, [r \in 1 .. ((out.img + c) % 2) |->
            <<RatDiv(FloatOfInt(props.img), im_scale), FloatOfInt(c),
              RatDiv(FloatOfInt(im_shape[1]), im_scale),
              RatDiv(FloatOfInt(im_shape[2]), im_scale),
              Rat(1, 2 + out.scaled)>>])]

\* ------------------------------------------------- the loop (120-154)
\* enumerate(valid_set): the iterator yields the next image or is exhausted
LoopNext ==
    /\ pc = "loop"
    /\ \/ /\ mb_idx' = mb_idx + 1
          /\ x' = Some(mb_idx + 1)
          /\ Goto("fprop")
       \/ /\ UNCHANGED <<mb_idx, x>>
          /\ Goto("voc_eval")
       \/ /\ UNCHANGED <<mb_idx, x>>
          /\ Raise("Exception")
    /\ UNCHANGED <<args, parsed, setupV, accV, outputs, meta, proposals, boxes,
                   gt_boxes, metas, log>>

\* a forward pass that is tried again when it raises
FpropWithRetry ==
    /\ pc = "fprop"
    /\ Called("fprop", mb_idx)
    /\ \/ /\ outputs' = Some(FpropOut(model[1], x[1]))
          /\ proposalLayer' = Some([img |-> x])
          /\ Goto("get_metadata")
       \/ UNCHANGED <<outputs, proposalLayer>> /\ Goto("fprop")
    /\ UNCHANGED <<args, parsed, be, valid_set, model, accV, mb_idx, x, meta,
                   proposals, boxes, gt_boxes, metas>>

Fprop ==
    /\ pc = "fprop"
    /\ Called("fprop", mb_idx)
    /\ \/ /\ outputs' = Some(FpropOut(model[1], x[1]))
          /\ proposalLayer' = Some([img |-> x])
          /\ Goto("get_metadata")
       \/ UNCHANGED <<outputs, proposalLayer>> /\ Raise("Exception")
    /\ UNCHANGED <<args, parsed, be, valid_set, model, accV, mb_idx, x, meta,
                   proposals, boxes, gt_boxes, metas>>

\* lines 132-136
GetMetadata ==
    /\ pc = "get_metadata"
    /\ Called("get_metadata_buffers", mb_idx)
    /\ \/ /\ \E n \in 0 .. BufRows :
                /\ meta' = Some(MetadataBuffers(x[1], n))
                /\ metas' = Append(metas, MetadataBuffers(x[1], n))
          /\ Goto("get_proposals")
       \/ UNCHANGED <<meta, metas>> /\ Raise("Exception")
    /\ UNCHANGED <<args, parsed, setupV, accV, mb_idx, x, outputs, proposals,
                   boxes, gt_boxes>>

GetProposals ==
    /\ pc = "get_proposals"
    /\ Called("get_proposals", mb_idx)
    /\ \/ /\ proposals' = Some([img |-> proposalLayer[1].img[1]])
          /\ Goto("get_bboxes")
       \/ proposals' = proposals /\ Raise("Exception")
    /\ UNCHANGED <<args, parsed, setupV, accV, mb_idx, x, outputs, meta, boxes,
                   gt_boxes, metas>>

\* lines 142-143
GetBboxes ==
    /\ pc = "get_bboxes"
    /\ Called("get_bboxes", mb_idx)
    /\ \/ /\ boxes' = Some(Detections(outputs[1], proposals[1],
                                      valid_set[1].num_classes,
                                      meta[1].im_shape, meta[1].im_scale))
          /\ Goto("store_boxes")
       \/ boxes' = boxes /\ Raise("Exception")
    /\ UNCHANGED <<args, parsed, setupV, accV, mb_idx, x, outputs, meta,
                   proposals, gt_boxes, metas>>

\* lst[i] = v for i >= 0: IndexError unless i < len(lst)
CanStore(lst, i) == i \in DOMAIN lst
Stored(lst, i, v) == [lst EXCEPT ![i] = v]

StoreIndexZero(k) == 0

StoreIndex(k) == k

\* line 145
StoreBoxes ==
    /\ pc = "store_boxes"
    /\ IF CanStore(all_boxes, StoreIndex(mb_idx))
       THEN /\ all_boxes' = Stored(all_boxes, StoreIndex(mb_idx), boxes[1])
            /\ Called("store_boxes", StoreIndex(mb_idx))
            /\ Goto("assemble_gt")
       ELSE /\ UNCHANGED <<all_boxes, log>>
            /\ Raise("IndexError")
    /\ UNCHANGED <<args, parsed, setupV, num_images, all_gt_boxes, loopV>>

\* a[:n] of a 2-d array
Slice(arr, n) == NdArray(arr.ncols, Head_n(arr.rows, n))

\* the upcast to float that np.hstack applies to an integer array
ArrFloat(arr) ==
    NdArray(arr.ncols,
            [r \in DOMAIN arr.rows |->
                [j \in DOMAIN arr.rows[r] |-> FloatOfInt(arr.rows[r][j])]])

\* the same upcast of a boolean array
ArrBoolFloat(arr) ==
    NdArray(arr.ncols,
            [r \in DOMAIN arr.rows |->
                [j \in DOMAIN arr.rows[r] |-> FloatOfBool(arr.rows[r][j])]])

\* arr / s, elementwise, for a float s
ArrDiv(arr, s) ==
    NdArray(arr.ncols,
            [r \in DOMAIN arr.rows |->
                [j \in DOMAIN arr.rows[r] |->
                    RatDiv(FloatOfInt(arr.rows[r][j]), s)]])

\* np.hstack: the parts need the same number of rows; the result is float
HStackOk(parts) ==
    \A i \in DOMAIN parts : Len(parts[i].rows) = Len(parts[1].rows)
HStack(parts) ==
    NdArray(parts[1].ncols + parts[2].ncols + parts[3].ncols + parts[4].ncols,
            [r \in 1 .. Len(parts[1].rows) |->
                parts[1].rows[r] \o parts[2].rows[r] \o parts[3].rows[r]
                    \o parts[4].rows[r]])

\* np.array([False] * n)[:, np.newaxis]
Detected(n) == NdArray(1, [r \in 1 .. n |-> <<FALSE>>])

GtPartsUnscaled(m) ==
    LET n == m.num_gt_boxes
    IN  <<ArrFloat(Slice(m.gt_boxes, n)),
          ArrFloat(Slice(m.gt_classes, n)),
          ArrFloat(Slice(m.difficult, n)),
          ArrBoolFloat(Detected(n))>>

\* the four parts handed to np.hstack at lines 149-152
GtParts(m) ==
    LET n == m.num_gt_boxes
    IN  <<ArrDiv(Slice(m.gt_boxes, n), m.im_scale),
          ArrFloat(Slice(m.gt_classes, n)),
          ArrFloat(Slice(m.difficult, n)),
          ArrBoolFloat(Detected(n))>>

\* lines 149-154
StoreGtBoxes ==
    /\ pc = "assemble_gt"
    /\ IF ~HStackOk(GtParts(meta[1]))
       THEN /\ UNCHANGED <<gt_boxes, all_gt_boxes, log>>
            /\ Raise("ValueError")
       ELSE /\ gt_boxes' = Some(HStack(GtParts(meta[1])))
            /\ IF CanStore(all_gt_boxes, StoreIndex(mb_idx))
               THEN /\ all_gt_boxes' = Stored(all_gt_boxes, StoreIndex(mb_idx),
                                              HStack(GtParts(meta[1])))
                    /\ Called("store_gt_boxes", StoreIndex(mb_idx))
                    /\ Goto("loop")
               ELSE /\ UNCHANGED <<all_gt_boxes, log>>
                    /\ Raise("IndexError")
    /\ UNCHANGED <<args, parsed, setupV, num_images, all_boxes, mb_idx, x,
                   outputs, meta, proposals, boxes, metas>>

\* ------------------------------------------------ evaluation (157-158)
\* the evaluation placed inside the loop body
VocEvalInsideLoop ==
    /\ pc = "voc_eval"
    /\ Called("voc_eval", -1)
    /\ \/ Goto("loop")
       \/ Raise("Exception")
    /\ UNCHANGED <<args, parsed, setupV, accV, loopV>>

VocEval ==
    /\ pc = "voc_eval"
    /\ Called("voc_eval", -1)
    /\ \/ Goto("done")
       \/ Raise("Exception")
    /\ UNCHANGED <<args, parsed, setupV, accV, loopV>>

Next ==
    \/ ParseArgs
    \/ OutputDirDefault
    \/ AssertModelFile
    \/ AssertManifest
    \/ AssertBatchSize
    \/ GenBackend
    \/ BuildDataLoader
    \/ BuildModel
    \/ LoadParams
    \/ Initialize
    \/ Normalize
    \/ InitAccumulators
    \/ LoopNext
    \/ Fprop
    \/ GetMetadata
    \/ GetProposals
    \/ GetBboxes
    \/ StoreBoxes
    \/ StoreGtBoxes
    \/ VocEval

Spec == Init /\ [][Next]_vars

\* ======================================================= properties
\* helpers over the call log
Count(op) == Cardinality({j \in DOMAIN log : log[j].op = op})
CountAt(op, k) == Cardinality({j \in DOMAIN log : log[j] = Ev(op, k)})
Positions(op) == {j \in DOMAIN log : log[j].op = op}
LastOp == IF log = <<>> THEN "none" ELSE log[Len(log)].op

Aborted == pc = "failed" /\ exc = "AssertionError"
NothingBuilt ==
    /\ be = FALSE
    /\ valid_set = None
    /\ model = None
    /\ proposalLayer = None
    /\ log = <<Ev("parse_args", -1)>>

\* C1: when no model file is given the script aborts with an assertion
\* failure at once: it is never past the first assert, and no backend, data
\* loader or model is built, no forward pass runs and voc_eval is not called.
C1_NoModelFileAborts ==
    (pc # "parse_args" /\ args.model_file = None) =>
        /\ pc \in {"output_dir_default", "assert_model_file", "failed"}
        /\ pc = "failed" => exc = "AssertionError"
        /\ NothingBuilt

C1_Witness == Aborted /\ args.model_file = None

\* C2: with a model file given and no 'val' entry in the manifest, the script
\* aborts with an assertion failure before the backend, the data loader or
\* the model is created, whatever the other arguments are.
C2_NoValManifestAborts ==
    (pc # "parse_args" /\ args.model_file # None
        /\ "val" \notin args.manifest) =>
        /\ pc \in {"output_dir_default", "assert_model_file",
                   "assert_manifest", "failed"}
        /\ pc = "failed" => exc = "AssertionError"
        /\ NothingBuilt

C2_Witness ==
    /\ Aborted
    /\ args.model_file # None
    /\ args.manifest = {"train"}
    /\ args.batch_size = 1
    /\ args.normalize

\* C3: every batch size other than 1 ends in an assertion failure before the
\* backend is built, and a batch size of 1 never fails the batch-size check:
\* an assertion failure with a model file and a validation manifest present
\* happens only for a batch size other than 1.
C3_BatchSizeOne ==
    /\ (pc # "parse_args" /\ args.batch_size # 1) =>
            /\ pc \in {"output_dir_default", "assert_model_file",
                       "assert_manifest", "assert_batch_size", "failed"}
            /\ pc = "failed" => exc = "AssertionError"
            /\ NothingBuilt
    /\ (Aborted /\ args.model_file # None /\ "val" \in args.manifest) =>
            args.batch_size # 1
    /\ (pc # "parse_args" /\ args.batch_size = 1 /\ args.model_file # None
            /\ "val" \in args.manifest) => ~Aborted

C3_Witness ==
    /\ Aborted
    /\ args.model_file # None
    /\ "val" \in args.manifest
    /\ args.batch_size = 2

\* the stages of the pipeline, in the order of the script
LoopOps == {"fprop", "get_metadata_buffers", "get_proposals", "get_bboxes",
            "store_boxes", "store_gt_boxes"}
Rank(op) ==
    CASE op = "parse_args" -> 1
      [] op = "gen_backend" -> 2
      [] op = "DataLoader" -> 3
      [] op = "build_model" -> 4
      [] op = "load_params" -> 5
      [] op = "initialize" -> 6
      [] op = "scale_bbreg_weights" -> 7
      [] op \in LoopOps -> 8
      [] op = "voc_eval" -> 9
OnceStages == {"parse_args", "gen_backend", "DataLoader", "build_model",
               "load_params", "initialize", "voc_eval"}

\* C4: the stages happen in one fixed order and each at most once: parse,
\* backend, data loader, build model, load_params, initialize, the loop,
\* voc_eval. voc_eval is called only after the loop has finished (no
\* iteration is left half done), a run that reaches its end has called every
\* stage, voc_eval included, exactly once, and no forward pass comes before
\* load_params and initialize or after voc_eval.
C4_StageOrder ==
    /\ \A j \in 1 .. Len(log) - 1 :
          /\ Rank(log[j].op) <= Rank(log[j + 1].op)
          /\ log[j].op \in OnceStages => log[j].op # log[j + 1].op
    /\ Count("voc_eval") > 0 =>
          /\ pc \in {"done", "failed"}
          /\ LastOp = "voc_eval"
          /\ Count("fprop") = mb_idx + 1
          /\ Count("store_gt_boxes") = mb_idx + 1
    /\ Count("fprop") > 0 =>
          /\ Count("load_params") = 1 /\ Count("initialize") = 1
          /\ model[1].params = parsed.model_file
          /\ model[1].initialized
    /\ pc = "done" => \A op \in OnceStages : Count(op) = 1

C4_Witness == pc = "done" /\ mb_idx = 1 /\ num_images = 2

\* what the loop is to leave in the accumulators for image i
ExpectedBoxes(i) ==
    Detections(FpropOut(model[1], i), [img |-> i], valid_set[1].num_classes,
               metas[i + 1].im_shape, metas[i + 1].im_scale)
ExpectedGtBoxes(i) == HStack(GtParts(metas[i + 1]))

AccumulatorsLive ==
    pc \in {"loop", "fprop", "get_metadata", "get_proposals", "get_bboxes",
            "store_boxes", "assemble_gt", "voc_eval", "done"}
BoxesStored(i) == CountAt("store_boxes", i) > 0
AtBoundary == pc \in {"loop", "voc_eval", "done"}

\* C5: all_boxes is indexed first by class and then by image:
\* all_boxes[cls][image] is the N x 5 array of detections of class cls in
\* image number image (the empty placeholder until that image is stored).
C5_ClassThenImage ==
    AccumulatorsLive =>
        \A c \in 0 .. valid_set[1].num_classes - 1, i \in 0 .. num_images - 1 :
            /\ c \in DOMAIN all_boxes
            /\ i \in DOMAIN all_boxes[c]
            /\ all_boxes[c][i] =
                  IF BoxesStored(i) THEN ExpectedBoxes(i)[c] ELSE EmptyList

\* the four calls of one iteration, in the order of the loop body
CallOrder == <<"fprop", "get_metadata_buffers", "get_proposals", "get_bboxes">>
IsLoopCall(e) == e.op \in {CallOrder[j] : j \in DOMAIN CallOrder}
LoopCalls == SelectSeq(log, IsLoopCall)

\* C6: no retry: the calls of the loop are, image after image, exactly one
\* fprop, one get_metadata_buffers, one get_proposals and one get_bboxes, in
\* that order and never for an earlier image again; every image yielded gets
\* them; and a run that one of them ended never calls voc_eval.
C6_NoRetry ==
    LET calls == LoopCalls
        n == Len(calls)
    IN  /\ \A j \in 1 .. n :
              /\ calls[j].idx = (j - 1) \div 4
              /\ calls[j].op = CallOrder[((j - 1) % 4) + 1]
        /\ n <= 4 * (mb_idx + 1)
        /\ 4 * mb_idx <= n
        /\ pc = "fprop" => n = 4 * mb_idx
        /\ pc = "get_metadata" => n = 4 * mb_idx + 1
        /\ pc = "get_proposals" => n = 4 * mb_idx + 2
        /\ pc = "get_bboxes" => n = 4 * mb_idx + 3
        /\ pc \in {"store_boxes", "assemble_gt", "loop", "voc_eval", "done"} =>
              n = 4 * (mb_idx + 1)
        /\ (pc = "failed" /\ IsLoopCall([op |-> LastOp])) =>
              Count("voc_eval") = 0
        /\ pc = "failed" => ~ENABLED Next

C6_Witness ==
    /\ pc = "failed"
    /\ LastOp = "get_proposals"
    /\ mb_idx = 1

\* C7: the regression weights are rescaled iff --normalize is set, at most
\* once, after load_params and initialize and before the first forward pass;
\* without the flag every forward pass uses the loaded model unchanged.
C7_NormalizeOnce ==
    /\ Count("scale_bbreg_weights") <= 1
    /\ Count("scale_bbreg_weights") = 1 => parsed.normalize
    /\ \A j \in Positions("scale_bbreg_weights") :
          /\ \E a \in Positions("load_params"), b \in Positions("initialize") :
                a < b /\ b < j
          /\ \A f \in Positions("fprop") : j < f
    /\ Count("fprop") > 0 =>
          /\ Count("scale_bbreg_weights") = (IF parsed.normalize THEN 1 ELSE 0)
          /\ model[1].bbreg_scaled = (IF parsed.normalize THEN 1 ELSE 0)
    /\ outputs # None =>
          /\ outputs[1].params = parsed.model_file
          /\ outputs[1].scaled = (IF parsed.normalize THEN 1 ELSE 0)

C7_Witness == pc = "done" /\ parsed.normalize /\ mb_idx = 1

C7_WitnessUnscaled == pc = "done" /\ ~parsed.normalize /\ mb_idx = 1

\* C8: at every iteration boundary, with k the index of the last finished
\* image, all_boxes[i] and all_gt_boxes[i] hold the result of image i for
\* i <= k, each written exactly once, and the placeholders for i > k; every
\* write is at an index in 0 .. num_images-1 and the lists keep their length,
\* so a set that yields exactly num_images images hands voc_eval a result
\* for every image.
C8_Accumulators ==
    /\ \A j \in DOMAIN log :
          log[j].op \in {"store_boxes", "store_gt_boxes"} =>
              log[j].idx \in 0 .. num_images - 1
    /\ AccumulatorsLive =>
          /\ DOMAIN all_boxes = 0 .. num_images - 1
          /\ DOMAIN all_gt_boxes = 0 .. num_images - 1
    /\ AtBoundary =>
          \A i \in 0 .. num_images - 1 :
              IF i <= mb_idx
              THEN /\ all_boxes[i] = ExpectedBoxes(i)
                   /\ all_gt_boxes[i] = ExpectedGtBoxes(i)
                   /\ CountAt("store_boxes", i) = 1
                   /\ CountAt("store_gt_boxes", i) = 1
              ELSE /\ all_boxes[i] =
                        [c \in 0 .. valid_set[1].num_classes - 1 |-> EmptyList]
                   /\ all_gt_boxes[i] = EmptyList
                   /\ CountAt("store_boxes", i) = 0
                   /\ CountAt("store_gt_boxes", i) = 0
    /\ (pc = "done" /\ mb_idx + 1 = num_images) =>
          \A i \in 0 .. num_images - 1 :
              /\ all_boxes[i] = ExpectedBoxes(i)
              /\ all_gt_boxes[i] = ExpectedGtBoxes(i)

C8_Witness == pc = "loop" /\ mb_idx = 0 /\ num_images = 2

\* C9: the ground-truth entry of every stored image has exactly num_gt_boxes
\* rows of 7 columns: the first rows of that image's box buffer with every
\* coordinate divided by that image's im_scale, the class and the difficult
\* value of the same row unchanged, and a last column that is False.
GtStored(i) == CountAt("store_gt_boxes", i) > 0

C9_GroundTruthRows ==
    \A i \in 0 .. num_images - 1 :
        GtStored(i) =>
            LET g == all_gt_boxes[i]
                m == metas[i + 1]
            IN  /\ g.kind = "ndarray"
                /\ g.ncols = 7
                /\ Len(g.rows) = m.num_gt_boxes
                /\ \A r \in 1 .. Len(g.rows) :
                      /\ \A j \in 1 .. 4 :
                            RatMul(g.rows[r][j], m.im_scale) =
                                FloatOfInt(GtBoxesBuf(i).rows[r][j])
                      /\ g.rows[r][5] = FloatOfInt(GtClassesBuf(i).rows[r][1])
                      /\ g.rows[r][6] = FloatOfInt(DifficultBuf(i).rows[r][1])
                      /\ g.rows[r][7] = FloatOfBool(FALSE)

C9_Witness ==
    /\ pc = "done"
    /\ mb_idx = 1
    /\ metas[1].num_gt_boxes = 1
    /\ metas[1].im_scale = Rat(1, 2)
    /\ metas[2].num_gt_boxes = BufRows
    /\ metas[2].im_scale = Rat(3, 2)

\* data_dir without a trailing separator
StripSep(d) ==
    IF d # <<>> /\ d[Len(d)] = "/" THEN SubSeq(d, 1, Len(d) - 1) ELSE d

\* C10: once the default has been applied, and so before any assertion runs,
\* args.output_dir is [data_dir]/frcn_output when --output_dir was not given
\* and the given value otherwise; no other argument is changed.
C10_OutputDirDefault ==
    pc \notin {"parse_args", "output_dir_default"} =>
        /\ args.output_dir =
              IF parsed.output_dir = None
              THEN Some(StripSep(parsed.data_dir) \o <<"/", "frcn_output">>)
              ELSE parsed.output_dir
        /\ [args EXCEPT !.output_dir = parsed.output_dir] = parsed

C10_Witness ==
    /\ pc = "assert_model_file"
    /\ parsed.output_dir = None
    /\ args.output_dir = Some(<<"data", "/", "frcn_output">>)

C10_WitnessGiven ==
    /\ pc = "assert_model_file"
    /\ parsed.output_dir = Some(<<"out">>)
    /\ args.output_dir = Some(<<"out">>)
====
